---------------------------- MODULE Spec2Model ----------------------------
(***************************************************************************)
(* Model of flat_to_opc.py: the Flat OPC -> OPC package converter.         *)
(*                                                                         *)
(*   ContentTypes   the content-type registry and its serialisation        *)
(*   find_packages  the lazy parser of the flat document                   *)
(*   flat_to_opc / flat_to_opc_bytes   the two assembler entry points      *)
(*                                                                         *)
(* Python strings are sequences of one-character strings, so that slicing  *)
(* (uri[1:]), suffix tests (endswith) and character filters are computed.  *)
(***************************************************************************)
EXTENDS Integers, Sequences, FiniteSets, TLC

\* ------------------------------------------------------------------ bounds

\* Largest number of pkg:part elements in a modelled flat document.
MaxParts == 3

\* Largest number of parts of the documents converted under every state of
\* the file system.
MaxFsParts == 1

\* Longest payload text enumerated for the binary branch.
MaxText == 5

\* Largest number of entries in an enumerated registry map.
MaxMap == 2

\* ----------------------------------------------------------------- strings

\* str.endswith(suffix), line 92: a case-sensitive comparison of the tail.
EndsWith(s, suf) ==
    /\ Len(s) >= Len(suf)
    /\ SubSeq(s, Len(s) - Len(suf) + 1, Len(s)) = suf

\* The whole string: the slice forgotten.
DropNone(s) == s

\* s[1:], lines 121 and 140: everything but the first character.
Slice1(s) == IF s = <<>> THEN <<>> ELSE Tail(s)

\* The literal "xml" of line 92.
XmlSuffix == <<"x", "m", "l">>

\* The literal "[Content_Types].xml" of lines 122 and 141.
ManifestName ==
    <<"[", "C", "o", "n", "t", "e", "n", "t", "_", "T", "y", "p", "e", "s",
      "]", ".", "x", "m", "l">>

\* A value that is not a string: an absent attribute, or Python's None.
Missing == <<"<missing>">>
None == <<"<None>">>

\* ------------------------------------------------------------------ base64

\* The base64 alphabet of binascii (table_a2b_base64): index = 6-bit value.
Alphabet ==
    <<"A","B","C","D","E","F","G","H","I","J","K","L","M","N","O","P","Q",
      "R","S","T","U","V","W","X","Y","Z","a","b","c","d","e","f","g","h",
      "i","j","k","l","m","n","o","p","q","r","s","t","u","v","w","x","y",
      "z","0","1","2","3","4","5","6","7","8","9","+","/">>

IsB64Char(c) == \E i \in 1..Len(Alphabet) : Alphabet[i] = c

B64Val(c) == (CHOOSE i \in 1..Len(Alphabet) : Alphabet[i] = c) - 1

Pad == "="

\* Line 103: filter(lambda char: char not in ["\n", "\r"], chunks).
RECURSIVE StripLineBreaks(_)
StripLineBreaks(s) ==
    IF s = <<>> THEN <<>>
    ELSE IF Head(s) \in {"\n", "\r"} THEN StripLineBreaks(Tail(s))
         ELSE <<Head(s)>> \o StripLineBreaks(Tail(s))

\* binascii.a2b_base64 in its default, non-strict mode, as base64.b64decode
\* calls it at line 104.  st = [quad, left, pads, out, stop]:
\*   a pad is skipped unless quad_pos >= 2, and ends the input once
\*   quad_pos + pads >= 4; a character outside the alphabet is skipped;
\*   a data character resets pads and shifts six bits in.
A2BStep(st, c) ==
    IF st.stop THEN st
    ELSE IF c = Pad THEN
        IF st.quad >= 2
        THEN IF st.quad + st.pads + 1 >= 4
             THEN [st EXCEPT !.pads = @ + 1, !.stop = TRUE]
             ELSE [st EXCEPT !.pads = @ + 1]
        ELSE st
    ELSE IF ~IsB64Char(c) THEN st
    ELSE LET v == B64Val(c)
         IN  CASE st.quad = 0 ->
                    [st EXCEPT !.quad = 1, !.left = v, !.pads = 0]
               [] st.quad = 1 ->
                    [st EXCEPT !.quad = 2, !.left = v % 16, !.pads = 0,
                               !.out = Append(@, (st.left * 4 + v \div 16) % 256)]
               [] st.quad = 2 ->
                    [st EXCEPT !.quad = 3, !.left = v % 4, !.pads = 0,
                               !.out = Append(@, (st.left * 16 + v \div 4) % 256)]
               [] OTHER ->
                    [st EXCEPT !.quad = 0, !.left = 0, !.pads = 0,
                               !.out = Append(@, (st.left * 64 + v) % 256)]

RECURSIVE A2BRun(_, _)
A2BRun(st, s) ==
    IF s = <<>> THEN st ELSE A2BRun(A2BStep(st, Head(s)), Tail(s))

A2BInit == [quad |-> 0, left |-> 0, pads |-> 0, out |-> <<>>, stop |-> FALSE]

\* The reference decoder of RFC 4648, which b64decode(validate=True) also
\* follows: quads of alphabet characters, padding only to fill the last quad;
\* any other character or length is an error.
RECURSIVE StrictQuads(_)
StrictQuads(s) ==
    IF s = <<>> THEN [ok |-> TRUE, bytes |-> <<>>]
    ELSE IF Len(s) < 4 \/ ~IsB64Char(s[1]) \/ ~IsB64Char(s[2])
         THEN [ok |-> FALSE, bytes |-> <<>>]
    ELSE LET a == B64Val(s[1])
             b == B64Val(s[2])
             b1 == (a * 4 + b \div 16) % 256
         IN  IF Len(s) = 4 /\ s[3] = Pad /\ s[4] = Pad
             THEN [ok |-> TRUE, bytes |-> <<b1>>]
             ELSE IF ~IsB64Char(s[3]) THEN [ok |-> FALSE, bytes |-> <<>>]
             ELSE LET c == B64Val(s[3])
                      b2 == ((b % 16) * 16 + c \div 4) % 256
                  IN  IF Len(s) = 4 /\ s[4] = Pad
                      THEN [ok |-> TRUE, bytes |-> <<b1, b2>>]
                      ELSE IF ~IsB64Char(s[4]) THEN [ok |-> FALSE, bytes |-> <<>>]
                      ELSE LET d == B64Val(s[4])
                               b3 == ((c % 4) * 64 + d) % 256
                               rest == StrictQuads(SubSeq(s, 5, Len(s)))
                           IN  [ok |-> rest.ok,
                                bytes |-> IF rest.ok THEN <<b1, b2, b3>> \o rest.bytes
                                          ELSE <<>>]

\* base64.b64decode(s, validate=True).
B64DecodeStrict(s) == StrictQuads(s)

\* base64.b64decode(s), line 104: [ok, bytes]; ~ok is binascii.Error.
B64Decode(s) ==
    LET st == A2BRun(A2BInit, s)
    IN  IF st.stop \/ st.quad = 0
        THEN [ok |-> TRUE, bytes |-> st.out]
        ELSE [ok |-> FALSE, bytes |-> <<>>]

\* ------------------------------------------------------- the flat document

\* Strings of the modelled documents.
UriA == <<"/", "a">>
UriB == <<"/", "b">>
UriManifest == <<"/">> \o ManifestName
UriBare == <<"x", "a">>

CtXml == <<"a", "+", "x", "m", "l">>
CtPlainXml == XmlSuffix
CtUpper == <<"a", "+", "X", "M", "L">>
CtXmlish == <<"x", "m", "l", "i", "s", "h">>
CtPng == <<"p", "n", "g">>

TextBroken == <<"Q", "Q", "\r", "\n", "=", "=">>
TextSpaced == <<"Q", "U", " ", "\t", "I", "=">>
TextBadPad == <<"Q", "Q", "=">>

\* An element below a pkg:part: its text and its child elements.
Elem(text, kids) == [text |-> text, kids |-> kids]

\* A payload element (the root of an embedded XML part).
Leaf(tag) == [tag |-> tag, text |-> None]

\* A pkg:part element: its two namespace-qualified attributes (Missing when
\* absent) and its child elements.
Part(name, ct, children) == [name |-> name, contentType |-> ct, children |-> children]

XmlData(tag) == <<Elem(None, <<Leaf(tag)>>)>>
BinData(text) == <<Elem(text, <<>>)>>

\* The pkg:part elements documents are built from.
PartCatalogue ==
    { Part(UriA, CtXml, XmlData("w:document")),
      Part(UriB, CtPng, BinData(TextBroken)),
      Part(UriA, CtUpper, BinData(TextSpaced)),
      Part(UriManifest, CtPlainXml, XmlData("Types")),
      Part(UriBare, CtXmlish,
           <<Elem(TextBroken, <<Leaf("x")>>), Elem(TextBadPad, <<>>)>>),
      Part(UriB, Missing, XmlData("w:styles")),
      Part(Missing, CtPng, BinData(TextBroken)),
      Part(UriB, CtPng, <<Elem(None, <<[tag |-> "x", text |-> TextBroken]>>)>>) }

\* Further pkg:part elements, of the one-part documents only.
EdgeCatalogue ==
    { Part(UriB, CtPng, BinData(TextBadPad)),
      Part(UriA, CtXml, BinData(TextBroken)),
      Part(UriA, CtPng, <<>>) }

\* The characters payload texts are enumerated over.
TextChars == {"Q", "U", "=", "\n", " "}

RECURSIVE SeqsUpTo(_, _)
SeqsUpTo(S, n) ==
    IF n = 0 THEN {<<>>}
    ELSE LET shorter == SeqsUpTo(S, n - 1)
         IN  shorter \cup {Append(q, e) : q \in {r \in shorter : Len(r) = n - 1}, e \in S}

\* The bytes of a source, by what etree.fromstring makes of them: first is
\* the outcome of the default parser (line 81), second that of the
\* huge_tree parser (line 85), parts the //pkg:part elements in document
\* order (line 89).
Doc(first, second, parts) == [first |-> first, second |-> second, parts |-> parts]

\* Bytes that are no XML document: an empty file, a path name, a ZIP.
NotXml == Doc("syntax", "syntax", <<>>)

DocsOf(partSeqs) ==
    {Doc("ok", "ok", ps) : ps \in partSeqs}
      \cup {Doc("huge", "ok", ps) : ps \in partSeqs}
      \cup {Doc("huge", "syntax", <<>>), NotXml}

Docs == DocsOf(SeqsUpTo(PartCatalogue, MaxParts))

SmallDocs == DocsOf(SeqsUpTo(PartCatalogue \cup EdgeCatalogue, MaxFsParts))

Texts == SeqsUpTo(TextChars, MaxText)

\* ------------------------------------------------------------ ContentTypes

\* key in dict, for an insertion-ordered dict held as a sequence of
\* <<key, value>>.
HasKey(map, key) == \E i \in 1..Len(map) : map[i][1] = key

\* dict.setdefault(key, value): the first value registered is kept.
DictKeepFirst(map, key, value) ==
    IF HasKey(map, key) THEN map ELSE Append(map, <<key, value>>)

\* dict[key] = value, line 57: an existing key keeps its place and gets the
\* new value.
DictSet(map, key, value) ==
    IF HasKey(map, key)
    THEN [i \in 1..Len(map) |-> IF map[i][1] = key THEN <<key, value>> ELSE map[i]]
    ELSE Append(map, <<key, value>>)

\* ContentTypes.add_content, lines 56-57.
add_content(overrides, part_name, content_type) ==
    DictSet(overrides, part_name, content_type)

\* Lines 33-38: "for key, value in self._defaults" iterates the KEYS of the
\* dict and unpacks each key string into two names: a key of exactly two
\* characters gives key, value = its two characters; any other key raises
\* ValueError.
DefaultsOk(defaults) == \A i \in 1..Len(defaults) : Len(defaults[i][1]) = 2

DefaultNodes(defaults) ==
    [i \in 1..Len(defaults) |->
        [tag |-> "Default",
         Extension |-> <<defaults[i][1][1]>>,
         ContentType |-> <<defaults[i][1][2]>>]]

\* Lines 40-45: one Override per item of self._overrides.
OverrideNodes(overrides) ==
    [i \in 1..Len(overrides) |->
        [tag |-> "Override",
         PartName |-> overrides[i][1],
         ContentType |-> overrides[i][2]]]

\* ContentTypes.write_xml_data, lines 28-54: the serialised Types document
\* (declaration, standalone, children in order), or ValueError.
write_xml_data(defaults, overrides) ==
    IF DefaultsOk(defaults)
    THEN [err |-> "none",
          data |-> [kind |-> "types", standalone |-> TRUE,
                    defaults |-> DefaultNodes(defaults),
                    overrides |-> OverrideNodes(overrides)]]
    ELSE [err |-> "ValueError",
          data |-> [kind |-> "types", standalone |-> TRUE,
                    defaults |-> <<>>, overrides |-> <<>>]]

\* ----------------------------------------------------------- find_packages

\* etree.tostring(element, xml_declaration=True, standalone=True, ...),
\* lines 93-100: the declaration followed by the element's subtree.
tostring(element) == [kind |-> "xml", standalone |-> TRUE, root |-> element.tag]

PartFailed(error) == [err |-> error, uri |-> <<>>, content_type |-> <<>>,
                      data |-> [kind |-> "none"]]

\* list(list(part)[0])[0].text: the text of the grandchild.
GrandchildText(part) ==
    IF part.children[1].kids = <<>> THEN None ELSE part.children[1].kids[1].text

\* The payload text of the binary branch, line 102: list(part)[0].text.
PayloadText(part) == part.children[1].text

\* The branch test of line 92.
IsXmlType(content_type) == EndsWith(content_type, XmlSuffix)

\* The binary branch, lines 102-104.
DecodeBinary(part) ==
    IF part.children = <<>> THEN PartFailed("IndexError")
    ELSE IF PayloadText(part) = None THEN PartFailed("TypeError")
    ELSE LET decoded == B64Decode(StripLineBreaks(PayloadText(part)))
         IN  IF decoded.ok
             THEN [err |-> "none", uri |-> part.name,
                   content_type |-> part.contentType,
                   data |-> [kind |-> "bytes", bytes |-> decoded.bytes]]
             ELSE PartFailed("binascii.Error")

\* The XML branch, lines 93-100: list(list(part)[0])[0].
SerializeXml(part) ==
    IF part.children = <<>> \/ part.children[1].kids = <<>>
    THEN PartFailed("IndexError")
    ELSE [err |-> "none", uri |-> part.name, content_type |-> part.contentType,
          data |-> tostring(part.children[1].kids[1])]

\* part.attrib.get(...) in place of part.attrib[...]: an absent attribute
\* is passed on.
PackagePartDefaulting(part) ==
    IF part.contentType # Missing /\ IsXmlType(part.contentType)
    THEN SerializeXml(part)
    ELSE DecodeBinary(part)

\* One iteration of the loop of lines 89-105: the PackagePart yielded for a
\* pkg:part element, or the exception raised.
PackagePart(part) ==
    IF part.name = Missing THEN PartFailed("KeyError")
    ELSE IF part.contentType = Missing THEN PartFailed("KeyError")
    ELSE IF IsXmlType(part.contentType) THEN SerializeXml(part)
    ELSE DecodeBinary(part)

\* ------------------------------------------------- file system and archive

Paths == {"in.xml", "out.docx"}

\* A literal source that names no file.
NoPath == "-"

\* What a path holds: nothing, a directory, a file of document bytes, or a
\* ZIP file (finalized once its central directory is written).
NoFile == [kind |-> "none", doc |-> NotXml, entries |-> <<>>, finalized |-> FALSE]
Dir == [kind |-> "dir", doc |-> NotXml, entries |-> <<>>, finalized |-> FALSE]
FileOf(d) == [kind |-> "doc", doc |-> d, entries |-> <<>>, finalized |-> FALSE]
ZipBytes(entries, finalized) ==
    [kind |-> "zip", doc |-> NotXml, entries |-> entries, finalized |-> finalized]

\* os.path.exists, line 74.
Exists(files, path) == path \in Paths /\ files[path].kind # "none"

\* f.read(), lines 75-76: the file's bytes (a ZIP is no XML document).
Read(file) == IF file.kind = "doc" THEN file.doc ELSE NotXml

\* The source argument: a string that may name a path, and the document its
\* own characters are when taken as XML text (line 78).
PathSrc(path) == [path |-> path, text |-> NotXml]
LiteralSrc(d) == [path |-> NoPath, text |-> d]

\* mode="a": an existing file keeps its content.
OpenAppend(file) == IF file.kind = "none" THEN ZipBytes(<<>>, FALSE) ELSE file

\* open(dest_path, "w+b") inside zipfile.ZipFile(dest_path, mode="w"), line
\* 118: the file is created or truncated.
OpenTruncate(file) == ZipBytes(<<>>, FALSE)

\* An entry put before those already written.
WriteFirst(entries, name, data) == <<[name |-> name, data |-> data]>> \o entries

\* ZipFile.writestr(name, data), lines 121-122 and 140-141: one more entry,
\* after those already written; an existing name is not replaced.
writestr(entries, name, data) == Append(entries, [name |-> name, data |-> data])

\* The archive left as it is: no with block around the writes.
LeaveOpen(archive) == archive

\* ZipFile.__exit__ -> close(): the central directory is written and the
\* writer released, on every way out of the with block.
CloseWriter(archive) == [archive EXCEPT !.state = "closed"]

\* A retry after any XMLSyntaxError.
RetryAnyError(outcome) == outcome # "ok"

\* Line 83: the retry test on the message of the XMLSyntaxError.
IsHugeTextNode(outcome) == outcome = "huge"

\* ------------------------------------------------------------------- state

VARIABLES
    api,        \* "file": flat_to_opc, "bytes": flat_to_opc_bytes, "registry"
    src,        \* the src_path argument
    dest,       \* the dest_path argument (NoPath for flat_to_opc_bytes)
    fs,         \* the file system: path -> what it holds
    fs0,        \* the file system when the call was made
    pc,         \* position of the call
    phase,      \* the assembler's state: Open, Writing, Finalizing, Closed
    content,    \* find_packages: the bytes resolved at lines 74-78
    tree,       \* find_packages: the pkg:part elements of the parsed tree
    attempts,   \* find_packages: number of etree.fromstring calls made
    idx,        \* number of parts yielded and written
    defaults,   \* ContentTypes._defaults
    overrides,  \* ContentTypes._overrides
    zip,        \* the ZipFile: [state, entries]
    err,        \* the exception in flight ("none" when there is none)
    outcome,    \* what the caller has seen: "pending", "returned", "raised"
    returned,   \* the bytes flat_to_opc_bytes returned
    manifest    \* the last result of write_xml_data

vars == <<api, src, dest, fs, fs0, pc, phase, content, tree, attempts, idx,
          defaults, overrides, zip, err, outcome, returned, manifest>>

NoArchive == [state |-> "none", entries |-> <<>>]
NoManifest == [err |-> "unset",
               data |-> [kind |-> "types", standalone |-> TRUE,
                         defaults |-> <<>>, overrides |-> <<>>]]

\* The state at the call, lines 116 and 133-135: a fresh registry, nothing
\* opened yet.
Start(a, s, d, files) ==
    /\ api = a
    /\ src = s
    /\ dest = d
    /\ fs = files
    /\ fs0 = files
    /\ pc = "start"
    /\ phase = "Init"
    /\ content = NotXml
    /\ tree = <<>>
    /\ attempts = 0
    /\ idx = 0
    /\ defaults = <<>>
    /\ overrides = <<>>
    /\ zip = NoArchive
    /\ err = "none"
    /\ outcome = "pending"
    /\ returned = ZipBytes(<<>>, FALSE)
    /\ manifest = NoManifest

\* Conversions of every document of at most MaxParts parts, given as
\* literal text, to a new file or to bytes.
InitDocs ==
    \E d \in Docs, a \in {"file", "bytes"} :
        Start(a, LiteralSrc(d), IF a = "file" THEN "out.docx" ELSE NoPath,
              [p \in Paths |-> NoFile])

\* Conversions of the small documents under every state of the file system:
\* the source a literal or a path, each path absent, a directory or a file.
InitFiles ==
    \E d \in SmallDocs, a \in {"file", "bytes"}, dst \in Paths :
        \E s \in {LiteralSrc(d)} \cup {PathSrc(p) : p \in Paths},
           files \in [Paths -> {NoFile, Dir, FileOf(d)}] :
            /\ a = "bytes" => dst = "out.docx"
            /\ Start(a, s, IF a = "file" THEN dst ELSE NoPath, files)

\* Conversions of a document of one binary part, for every payload text.
InitTexts ==
    \E t \in Texts :
        Start("bytes",
              LiteralSrc(Doc("ok", "ok", <<Part(UriB, CtPng, BinData(t))>>)),
              NoPath, [p \in Paths |-> NoFile])

Init == InitDocs \/ InitFiles \/ InitTexts

\* ------------------------------------------------------------ the assembler

\* Lines 118 / 137: the with statement opens the archive.  find_packages(src)
\* only creates the generator: none of its body has run.
OpenArchive ==
    /\ pc = "start"
    /\ api \in {"file", "bytes"}
    /\ ~(api = "file" /\ fs[dest].kind = "dir")
    /\ zip' = [state |-> "open", entries |-> <<>>]
    /\ fs' = IF api = "file" THEN [fs EXCEPT ![dest] = OpenTruncate(@)] ELSE fs
    /\ phase' = "Open"
    /\ pc' = "generator"
    /\ UNCHANGED <<api, src, dest, fs0, content, tree, attempts, idx, defaults,
                   overrides, err, outcome, returned, manifest>>

\* Line 118: the destination cannot be opened for writing; the exception
\* reaches the caller with no archive opened.
OpenFails ==
    /\ pc = "start"
    /\ api = "file"
    /\ fs[dest].kind = "dir"
    /\ err' = "OSError"
    /\ outcome' = "raised"
    /\ pc' = "done"
    /\ UNCHANGED <<api, src, dest, fs, fs0, phase, content, tree, attempts, idx,
                   defaults, overrides, zip, returned, manifest>>

\* Lines 74-78, run by the first next() of the for loop at line 119 / 138.
Resolve ==
    /\ pc = "generator"
    /\ ~(Exists(fs, src.path) /\ fs[src.path].kind = "dir")
    /\ content' = IF Exists(fs, src.path) THEN Read(fs[src.path]) ELSE src.text
    /\ pc' = "parse"
    /\ UNCHANGED <<api, src, dest, fs, fs0, phase, tree, attempts, idx, defaults,
                   overrides, zip, err, outcome, returned, manifest>>

\* Line 75: the path exists but cannot be opened for reading.
ResolveFails ==
    /\ pc = "generator"
    /\ Exists(fs, src.path)
    /\ fs[src.path].kind = "dir"
    /\ err' = "OSError"
    /\ pc' = "exit"
    /\ UNCHANGED <<api, src, dest, fs, fs0, phase, content, tree, attempts, idx,
                   defaults, overrides, zip, outcome, returned, manifest>>

\* Line 81 succeeds.
ParseOk ==
    /\ pc = "parse"
    /\ content.first = "ok"
    /\ attempts' = attempts + 1
    /\ tree' = content.parts
    /\ pc' = "parts"
    /\ UNCHANGED <<api, src, dest, fs, fs0, phase, content, idx, defaults,
                   overrides, zip, err, outcome, returned, manifest>>

\* Lines 81-84: XMLSyntaxError whose message has "huge text node".
ParseHuge ==
    /\ pc = "parse"
    /\ content.first # "ok"
    /\ IsHugeTextNode(content.first)
    /\ attempts' = attempts + 1
    /\ pc' = "retry"
    /\ UNCHANGED <<api, src, dest, fs, fs0, phase, content, tree, idx, defaults,
                   overrides, zip, err, outcome, returned, manifest>>

\* Lines 81-83, 86-87: any other XMLSyntaxError is raised again.
ParseFails ==
    /\ pc = "parse"
    /\ content.first # "ok"
    /\ ~IsHugeTextNode(content.first)
    /\ attempts' = attempts + 1
    /\ err' = "XMLSyntaxError"
    /\ pc' = "exit"
    /\ UNCHANGED <<api, src, dest, fs, fs0, phase, content, tree, idx, defaults,
                   overrides, zip, outcome, returned, manifest>>

\* Line 85 succeeds.
RetryOk ==
    /\ pc = "retry"
    /\ content.second = "ok"
    /\ attempts' = attempts + 1
    /\ tree' = content.parts
    /\ pc' = "parts"
    /\ UNCHANGED <<api, src, dest, fs, fs0, phase, content, idx, defaults,
                   overrides, zip, err, outcome, returned, manifest>>

\* Line 85 raises: nothing catches it.
RetryFails ==
    /\ pc = "retry"
    /\ content.second # "ok"
    /\ attempts' = attempts + 1
    /\ err' = "XMLSyntaxError"
    /\ pc' = "exit"
    /\ UNCHANGED <<api, src, dest, fs, fs0, phase, content, tree, idx, defaults,
                   overrides, zip, outcome, returned, manifest>>

\* Lines 89-105 and 119-121 / 138-140: the next part is yielded, registered
\* and written.
WritePart ==
    /\ pc = "parts"
    /\ idx < Len(tree)
    /\ LET file == PackagePart(tree[idx + 1])
           written == writestr(zip.entries, Slice1(file.uri), file.data)
       IN  /\ file.err = "none"
           /\ overrides' = add_content(overrides, file.uri, file.content_type)
           /\ zip' = [zip EXCEPT !.entries = written]
           /\ fs' = IF api = "file"
                    THEN [fs EXCEPT ![dest] = ZipBytes(written, FALSE)]
                    ELSE fs
    /\ idx' = idx + 1
    /\ phase' = "Writing"
    /\ UNCHANGED <<api, src, dest, fs0, pc, content, tree, attempts, defaults,
                   err, outcome, returned, manifest>>

\* Lines 90-104: producing the next part raises.
PartFails ==
    /\ pc = "parts"
    /\ idx < Len(tree)
    /\ PackagePart(tree[idx + 1]).err # "none"
    /\ err' = PackagePart(tree[idx + 1]).err
    /\ pc' = "exit"
    /\ UNCHANGED <<api, src, dest, fs, fs0, phase, content, tree, attempts, idx,
                   defaults, overrides, zip, outcome, returned, manifest>>

\* Lines 122 / 141: the generator is exhausted; the registry is serialised
\* and written as the last entry.
WriteManifest ==
    /\ pc = "parts"
    /\ idx = Len(tree)
    /\ LET m == write_xml_data(defaults, overrides)
           written == writestr(zip.entries, ManifestName, m.data)
       IN  /\ manifest' = m
           /\ IF m.err = "none"
              THEN /\ zip' = [zip EXCEPT !.entries = written]
                   /\ fs' = IF api = "file"
                            THEN [fs EXCEPT ![dest] = ZipBytes(written, FALSE)]
                            ELSE fs
                   /\ err' = err
              ELSE /\ err' = m.err
                   /\ UNCHANGED <<zip, fs>>
    /\ phase' = "Finalizing"
    /\ pc' = "exit"
    /\ UNCHANGED <<api, src, dest, fs0, content, tree, attempts, idx, defaults,
                   overrides, outcome, returned>>

\* The end of the with block, on the normal and on the exceptional path.
CloseArchive ==
    /\ pc = "exit"
    /\ zip' = CloseWriter(zip)
    /\ fs' = IF api = "file"
             THEN [fs EXCEPT ![dest] = ZipBytes(zip.entries, zip'.state = "closed")]
             ELSE fs
    /\ phase' = IF zip'.state = "closed" THEN "Closed" ELSE phase
    /\ pc' = "closed"
    /\ UNCHANGED <<api, src, dest, fs0, content, tree, attempts, idx, defaults,
                   overrides, err, outcome, returned, manifest>>

\* The call returns (line 143 returns zip_buffer.getvalue()).
Return ==
    /\ pc = "closed"
    /\ err = "none"
    /\ outcome' = "returned"
    /\ returned' = IF api = "bytes"
                   THEN ZipBytes(zip.entries, zip.state = "closed")
                   ELSE returned
    /\ pc' = "done"
    /\ UNCHANGED <<api, src, dest, fs, fs0, phase, content, tree, attempts, idx,
                   defaults, overrides, zip, err, manifest>>

\* The exception leaves the call.
Raise ==
    /\ pc = "closed"
    /\ err # "none"
    /\ outcome' = "raised"
    /\ pc' = "done"
    /\ UNCHANGED <<api, src, dest, fs, fs0, phase, content, tree, attempts, idx,
                   defaults, overrides, zip, err, returned, manifest>>

Next ==
    \/ OpenArchive
    \/ OpenFails
    \/ Resolve
    \/ ResolveFails
    \/ ParseOk
    \/ ParseHuge
    \/ ParseFails
    \/ RetryOk
    \/ RetryFails
    \/ WritePart
    \/ PartFails
    \/ WriteManifest
    \/ CloseArchive
    \/ Return
    \/ Raise

Spec == Init /\ [][Next]_vars

\* ------------------------------------------------- the registry on its own

\* Registries a caller can hold: ContentTypes() with any _defaults.
ExtPng == <<"p", "n", "g">>
ExtGz == <<"g", "z">>
ExtC == <<"c">>

RECURSIVE DistinctMaps(_, _, _)
DistinctMaps(K, V, n) ==
    IF n = 0 THEN {<<>>}
    ELSE LET shorter == DistinctMaps(K, V, n - 1)
         IN  shorter \cup
             UNION {{Append(m, <<k, v>>) : k \in {x \in K : ~HasKey(m, x)}, v \in V} :
                       m \in {r \in shorter : Len(r) = n - 1}}

InitRegistry ==
    \E dm \in DistinctMaps({ExtPng, ExtGz, ExtC}, {CtPng, CtXml}, MaxMap) :
        /\ api = "registry"
        /\ src = LiteralSrc(NotXml)
        /\ dest = NoPath
        /\ fs = [p \in Paths |-> NoFile]
        /\ fs0 = [p \in Paths |-> NoFile]
        /\ pc = "registry"
        /\ phase = "Init"
        /\ content = NotXml
        /\ tree = <<>>
        /\ attempts = 0
        /\ idx = 0
        /\ defaults = dm
        /\ overrides = <<>>
        /\ zip = NoArchive
        /\ err = "none"
        /\ outcome = "pending"
        /\ returned = ZipBytes(<<>>, FALSE)
        /\ manifest = NoManifest

\* A call of add_content, lines 56-57.
RegistryAdd ==
    /\ pc = "registry"
    /\ \E part_name \in {UriA, UriB, UriManifest}, content_type \in {CtXml, CtPng} :
          /\ HasKey(overrides, part_name) \/ Len(overrides) < MaxMap
          /\ overrides' = add_content(overrides, part_name, content_type)
    /\ UNCHANGED <<api, src, dest, fs, fs0, pc, phase, content, tree, attempts,
                   idx, defaults, zip, err, outcome, returned, manifest>>

\* A call of write_xml_data, lines 28-54.
RegistryWrite ==
    /\ pc = "registry"
    /\ manifest' = write_xml_data(defaults, overrides)
    /\ pc' = "serialized"
    /\ UNCHANGED <<api, src, dest, fs, fs0, phase, content, tree, attempts, idx,
                   defaults, overrides, zip, err, outcome, returned>>

NextRegistry == RegistryAdd \/ RegistryWrite

SpecRegistry == InitRegistry /\ [][NextRegistry]_vars

\* ------------------------------------------------------------ properties

\* The archive the caller is left with: the destination file, or the bytes
\* returned.
Output == IF api = "file" THEN fs[dest] ELSE returned

Succeeded == pc = "done" /\ outcome = "returned"

\* s without its first character, written without Slice1.
AfterFirst(s) == SubSeq(s, 2, Len(s))

\* The entry a part must have produced.
IsEntryOf(entry, part) ==
    /\ entry.name = AfterFirst(part.name)
    /\ entry.data = PackagePart(part).data

IsManifestEntry(entry) ==
    entry.name = ManifestName /\ entry.data.kind = "types"

HasAttributes(part) == part.name # Missing /\ part.contentType # Missing

\* The part at position k lacks an attribute and every part before it can
\* be produced.
FirstBadIsMissingAttr(k) ==
    /\ k \in 1..Len(tree)
    /\ ~HasAttributes(tree[k])
    /\ \A j \in 1..(k - 1) : PackagePart(tree[j]).err = "none"

\* C1: after a successful run the archive has exactly N+1 entries: the i-th
\* is named by the i-th part's uri without its first character (the leading
\* '/'), and one more, the last, is the manifest named [Content_Types].xml;
\* repeated uris and the uri /[Content_Types].xml each still get their own
\* entry.
C1_EntryCount ==
    Succeeded =>
        LET E == Output.entries
            N == Len(tree)
        IN  /\ Output.kind = "zip"
            /\ Output.finalized
            /\ Len(E) = N + 1
            /\ \A i \in 1..N :
                  /\ E[i].name = AfterFirst(tree[i].name)
                  /\ tree[i].name[1] = "/" => <<"/">> \o E[i].name = tree[i].name
            /\ IsManifestEntry(E[N + 1])
            /\ Cardinality({i \in 1..Len(E) : E[i].data.kind = "types"}) = 1
            /\ Cardinality({i \in 1..Len(E) : E[i].name = ManifestName})
                 = 1 + Cardinality({i \in 1..N : tree[i].name = UriManifest})

C1_Witness ==
    /\ Succeeded
    /\ Len(tree) = 3
    /\ \E i \in 1..3 : tree[i].name = UriManifest
    /\ \E i, j \in 1..3 : i # j /\ tree[i].name = tree[j].name

\* C2: in every state the entries written are those of the parts yielded so
\* far, in document order, and the manifest entry, once written, is the last
\* entry and is written only when every part has been written.
C2_Order ==
    LET E == zip.entries
    IN  /\ Len(E) \in {idx, idx + 1}
        /\ idx <= Len(tree)
        /\ \A i \in 1..idx : IsEntryOf(E[i], tree[i])
        /\ Len(E) = idx + 1 =>
              /\ idx = Len(tree)
              /\ IsManifestEntry(E[idx + 1])
              /\ pc \in {"exit", "closed", "done"}
        /\ \A i \in 1..Len(E) : E[i].data.kind = "types" => i = Len(E)

C2_Witness ==
    /\ Len(zip.entries) = 3
    /\ IsManifestEntry(zip.entries[3])
    /\ zip.entries[1].name = <<"a">>
    /\ zip.entries[2].name = <<"b">>

\* The overrides of the manifest written by a successful run.
ManifestOverrides == Output.entries[Len(Output.entries)].data.overrides

\* The content type of the last part registered under a uri.
LastTypeOf(uri) ==
    LET k == CHOOSE i \in 1..Len(tree) :
                 /\ tree[i].name = uri
                 /\ \A j \in (i + 1)..Len(tree) : tree[j].name # uri
    IN  tree[k].contentType

\* C3: after a successful run the manifest has, for every part, exactly one
\* Override whose PartName is the part's full uri, with the content type of
\* the last part registered under that uri, and no Override for any other
\* path.
C3_Overrides ==
    Succeeded =>
        LET M == ManifestOverrides
        IN  /\ \A i \in 1..Len(tree) :
                  /\ Cardinality({j \in 1..Len(M) : M[j].PartName = tree[i].name}) = 1
                  /\ \A j \in 1..Len(M) :
                        M[j].PartName = tree[i].name =>
                            M[j].ContentType = LastTypeOf(tree[i].name)
            /\ \A j \in 1..Len(M) :
                  /\ M[j].tag = "Override"
                  /\ \E i \in 1..Len(tree) : tree[i].name = M[j].PartName

C3_Witness ==
    /\ Succeeded
    /\ \E i, j \in 1..Len(tree) :
          /\ i < j
          /\ tree[i].name = tree[j].name
          /\ tree[i].contentType # tree[j].contentType
    /\ \E i \in 1..Len(tree) : tree[i].name = UriB

\* C4 as claimed: when a part lacks its name or contentType attribute the
\* run fails with the lookup error and no finalized, readable archive holding
\* only the parts before it is left behind.
C4_NoPartialArchive ==
    \A k \in 1..Len(tree) :
        (pc = "done" /\ FirstBadIsMissingAttr(k)) =>
            /\ outcome = "raised"
            /\ err = "KeyError"
            /\ ~(/\ Output.kind = "zip"
                 /\ Output.finalized
                 /\ Len(Output.entries) = k - 1)

\* C4 as amended: the run fails with the lookup error and writes no manifest;
\* flat_to_opc_bytes returns nothing, and flat_to_opc leaves at the
\* destination a closed archive holding exactly the parts before the failing
\* one.
C4_FailsLeavingPrefix ==
    \A k \in 1..Len(tree) :
        (pc = "done" /\ FirstBadIsMissingAttr(k)) =>
            /\ outcome = "raised"
            /\ err = "KeyError"
            /\ zip.state = "closed"
            /\ Len(zip.entries) = k - 1
            /\ \A i \in 1..(k - 1) : IsEntryOf(zip.entries[i], tree[i])
            /\ \A i \in 1..Len(zip.entries) : ~IsManifestEntry(zip.entries[i])
            /\ api = "file" => fs[dest] = ZipBytes(zip.entries, TRUE)
            /\ api = "bytes" => returned = ZipBytes(<<>>, FALSE)

C4_Witness ==
    /\ pc = "done"
    /\ api = "file"
    /\ FirstBadIsMissingAttr(3)
    /\ tree[3].contentType = Missing
    /\ fs[dest].finalized
    /\ Len(fs[dest].entries) = 2

\* C5 as claimed: the branch is chosen by the suffix test; the XML branch
\* serialises the grandchild, and the other branch decodes the text of that
\* same grandchild with only line breaks removed.
C5_PayloadFromGrandchild ==
    \A i \in 1..idx :
        LET part == tree[i]
            data == zip.entries[i].data
        IN  /\ part.children # <<>>
            /\ part.children[1].kids # <<>>
            /\ IF EndsWith(part.contentType, <<"x", "m", "l">>)
               THEN data = [kind |-> "xml", standalone |-> TRUE,
                            root |-> part.children[1].kids[1].tag]
               ELSE /\ part.children[1].kids[1].text # None
                    /\ data = [kind |-> "bytes",
                               bytes |-> B64Decode(StripLineBreaks(
                                             part.children[1].kids[1].text)).bytes]

\* C5 as amended: the branch is chosen by the case-sensitive suffix test;
\* the XML branch serialises the first grandchild, and the other branch
\* decodes the text of the part's first child itself, with only "\n" and
\* "\r" removed, as the reference decoder decodes it.
C5_PayloadFromChild ==
    \A i \in 1..idx :
        LET part == tree[i]
            data == zip.entries[i].data
        IN  /\ part.children # <<>>
            /\ IF EndsWith(part.contentType, <<"x", "m", "l">>)
               THEN /\ part.children[1].kids # <<>>
                    /\ data = [kind |-> "xml", standalone |-> TRUE,
                               root |-> part.children[1].kids[1].tag]
               ELSE /\ part.children[1].text # None
                    /\ data = [kind |-> "bytes",
                               bytes |-> B64Decode(StripLineBreaks(
                                             part.children[1].text)).bytes]

C5_Witness ==
    /\ idx = 3
    /\ \E i \in 1..3 : tree[i].contentType = CtUpper
    /\ \E i \in 1..3 : tree[i].contentType = CtXmlish
    /\ \E i \in 1..3 : tree[i].contentType = CtXml

\* A part of the binary branch that has a payload text.
IsBinaryWithText(part) ==
    /\ HasAttributes(part)
    /\ ~EndsWith(part.contentType, <<"x", "m", "l">>)
    /\ part.children # <<>>
    /\ part.children[1].text # None

RECURSIVE OnlyBase64(_)
OnlyBase64(s) ==
    IF s = <<>> THEN <<>>
    ELSE IF IsB64Char(Head(s)) \/ Head(s) = Pad
         THEN <<Head(s)>> \o OnlyBase64(Tail(s))
         ELSE OnlyBase64(Tail(s))

\* The payload text with "\n" and "\r" removed is valid base64.
ValidAfterStrip(part) == StrictQuads(StripLineBreaks(part.children[1].text)).ok

\* C6 as claimed: a binary part whose text is not valid base64 once "\n"
\* and "\r" are removed is never decoded and written; the run fails with the
\* decode failure.
C6_InvalidNeverWritten ==
    \A i \in 1..Len(tree) :
        (IsBinaryWithText(tree[i]) /\ ~ValidAfterStrip(tree[i])) =>
            /\ idx < i
            /\ (pc = "done" /\ idx = i - 1) =>
                  (outcome = "raised" /\ err = "binascii.Error")

\* C6 as amended: the decode failure is raised only for text that is still
\* not valid base64 once every character outside the base64 alphabet is
\* discarded too; text whose only defect is such characters (tab, space) is
\* decoded to the bytes of the text without them and written as the entry.
C6_LenientDecode ==
    \A i \in 1..Len(tree) :
        IsBinaryWithText(tree[i]) =>
            LET ref == StrictQuads(OnlyBase64(tree[i].children[1].text))
            IN  /\ (ref.ok /\ idx >= i) =>
                      zip.entries[i].data = [kind |-> "bytes", bytes |-> ref.bytes]
                /\ (ref.ok /\ idx = i - 1) => err = "none"
                /\ (idx = i - 1 /\ err # "none") =>
                      (err = "binascii.Error" /\ ~ref.ok)

C6_Witness ==
    /\ Succeeded
    /\ Len(tree) = 1
    /\ IsBinaryWithText(tree[1])
    /\ ~ValidAfterStrip(tree[1])
    /\ \E j \in 1..Len(tree[1].children[1].text) :
          tree[1].children[1].text[j] = " "
    /\ Output.entries[1].data.bytes = <<65>>

\* C7: write_xml_data never fails, and emits one Default per entry of the
\* defaults map (Extension = key, ContentType = value), then one Override
\* per entry of the overrides map (PartName = key, ContentType = value).
C7_SerializeAll ==
    pc = "serialized" =>
        /\ manifest.err = "none"
        /\ manifest.data.defaults =
              [i \in 1..Len(defaults) |->
                  [tag |-> "Default",
                   Extension |-> defaults[i][1],
                   ContentType |-> defaults[i][2]]]
        /\ manifest.data.overrides =
              [i \in 1..Len(overrides) |->
                  [tag |-> "Override",
                   PartName |-> overrides[i][1],
                   ContentType |-> overrides[i][2]]]

\* C8: the document is parsed at most twice; the second attempt is made only
\* after a "huge text node" failure of the first; any other failure, and a
\* failure of the retry, reaches the caller; no part is yielded unless one
\* of the attempts succeeded.
C8_ParseRetry ==
    /\ attempts <= 2
    /\ (attempts = 2 \/ pc = "retry") => content.first = "huge"
    /\ (attempts >= 1 /\ content.first = "syntax") =>
          /\ attempts = 1
          /\ err = "XMLSyntaxError"
          /\ pc = "done" => outcome = "raised"
    /\ (attempts = 2 /\ content.second # "ok") =>
          /\ err = "XMLSyntaxError"
          /\ pc = "done" => outcome = "raised"
    /\ (pc = "parts" \/ idx > 0 \/ zip.entries # <<>>) =>
          \/ attempts = 1 /\ content.first = "ok"
          \/ attempts = 2 /\ content.first = "huge" /\ content.second = "ok"

C8_Witness ==
    /\ Succeeded
    /\ attempts = 2
    /\ idx = 2

\* The assembler's state machine.
PhaseStep ==
    \/ phase' = phase
    \/ phase = "Init" /\ phase' = "Open"
    \/ phase \in {"Open", "Writing"} /\ phase' = "Writing" /\ err' = "none"
    \/ phase \in {"Open", "Writing"} /\ phase' = "Finalizing" /\ err = "none"
    \/ phase = "Finalizing" /\ phase' = "Closed"
    \/ phase \in {"Open", "Writing"} /\ phase' = "Closed" /\ err # "none"

Released ==
    /\ (zip.state = "open") = (phase \in {"Open", "Writing", "Finalizing"})
    /\ outcome # "pending" => zip.state # "open"
    /\ (outcome # "pending" /\ zip.state # "none") =>
          /\ phase = "Closed"
          /\ api = "file" => (fs[dest].kind = "zip" /\ fs[dest].finalized)
    /\ (phase = "Closed" /\ err # "none") =>
          \A i \in 1..Len(zip.entries) : ~IsManifestEntry(zip.entries[i])

\* C9: every run goes Open -> Writing (per part) -> Finalizing -> Closed; a
\* failure in Open or Writing goes to Closed without Finalizing and without
\* a manifest entry; the writer is closed before the caller sees the result,
\* and nothing follows Closed.
C9_Lifecycle ==
    /\ []Released
    /\ [][PhaseStep /\ (phase = "Closed" => phase' = "Closed" /\ zip' = zip)]_vars

C9_Witness ==
    /\ pc = "done"
    /\ outcome = "raised"
    /\ phase = "Closed"
    /\ idx = 2
    /\ zip.state = "closed"

\* C10: in flat_to_opc the destination is created or truncated before the
\* source is resolved, so a resolution or parse failure finds it altered and
\* without entries, and a source that is the destination is read after the
\* truncation: its original content is never parsed.
C10_DestinationFirst ==
    api = "file" =>
        /\ pc = "generator" => fs[dest] = ZipBytes(<<>>, FALSE)
        /\ (attempts >= 1 \/ (err = "OSError" /\ zip.state # "none")) =>
              /\ fs[dest].kind = "zip"
              /\ fs[dest] # fs0[dest]
        /\ (zip.state # "none" /\ err \in {"OSError", "XMLSyntaxError"}) =>
              /\ idx = 0
              /\ fs[dest].entries = <<>>
        /\ (src.path = dest /\ pc \notin {"start", "generator"} /\ zip.state # "none") =>
              /\ content = NotXml
              /\ tree = <<>>
              /\ err # "none" => err = "XMLSyntaxError"

C10_Witness ==
    /\ pc = "done"
    /\ api = "file"
    /\ src.path = dest
    /\ fs0[dest].kind = "doc"
    /\ fs0[dest].doc.first = "ok"
    /\ Len(fs0[dest].doc.parts) = 1
    /\ PackagePart(fs0[dest].doc.parts[1]).err = "none"
    /\ err = "XMLSyntaxError"
    /\ fs[dest] = ZipBytes(<<>>, TRUE)

=============================================================================
